---- MODULE Spec2Model ----
(***************************************************************************)
(* Model of dataBaseCheck.py: read_authenticator_db(db_path) opens the     *)
(* SQLite file at db_path, lists the rows of sqlite_master with            *)
(* type='table', and prints for each of them its column names and rows.    *)
(* The state is the store on disk, the position (pc) of the single thread  *)
(* inside the function, its locals, the lines printed so far and the calls *)
(* issued to the store so far.                                             *)
(***************************************************************************)
EXTENDS Integers, Sequences, FiniteSets, TLC

VARIABLES store, store0, pc, conn, tables, i, rows, columns, r, out, log,
          exc, result

vars == <<store, store0, pc, conn, tables, i, rows, columns, r, out, log,
          exc, result>>

----------------------------------------------------------------------------
(* Bounds *)

\* largest number of sqlite_master entries of a store
MaxObjects == 2
\* largest number of rows of one table
MaxRows == 2

----------------------------------------------------------------------------
(* The store: a file at db_path and, when it is a database, its catalog *)

\* what is at db_path before the run: the parent directory is missing, the
\* directory exists but the file does not, the file is not an SQLite
\* database, or it is one
FileKinds == {"nodir", "absent", "garbage", "db"}

\* the objects a catalog can list, with the type sqlite_master records for
\* them; sqlite_sequence is created by the store itself (AUTOINCREMENT)
ObjectType == [t1 |-> "table", t2 |-> "table", sqlite_sequence |-> "table",
               i1 |-> "index", v1 |-> "view"]

ObjectNames == DOMAIN ObjectType

\* objects the store creates for itself carry the reserved prefix sqlite_
Internal(name) == name = "sqlite_sequence"

\* PRAGMA table_info rows of a table: <<cid, name>> per column
TableInfo == [t1 |-> <<(<<0, "a">>), (<<1, "b">>)>>,
              t2 |-> <<(<<0, "a">>)>>,
              sqlite_sequence |-> <<(<<0, "name">>), (<<1, "seq">>)>>,
              i1 |-> <<>>,
              v1 |-> <<(<<0, "a">>)>>]

Values == {"x", "y"}

\* a row is a tuple of column values
RowSeqs == UNION {[1..n -> {<<v>> : v \in Values}] : n \in 0..MaxRows}

\* one sqlite_master entry together with the content of the object
Entries == {[name |-> n, type |-> ObjectType[n], rows |-> rs] :
              n \in ObjectNames, rs \in RowSeqs}

WellFormedEntry(e) == e.type # "table" => e.rows = <<>>

Catalogs == UNION {{c \in [1..n -> Entries] :
                      /\ \A k \in 1..n : WellFormedEntry(c[k])
                      /\ \A k, l \in 1..n : c[k].name = c[l].name => k = l} :
                   n \in 0..MaxObjects}

Stores == {[file |-> f, catalog |-> c] : f \in FileKinds, c \in Catalogs}

\* only a database file has a catalog
WellFormedStore(s) == s.file # "db" => s.catalog = <<>>

----------------------------------------------------------------------------
(* sqlite3 exceptions *)

NoExc == [cls |-> "none", msg |-> ""]

\* the exception hierarchy of the sqlite3 module
Parent == [OperationalError |-> "DatabaseError", DatabaseError |-> "Error",
           Error |-> "Exception", Exception |-> "Exception"]

RECURSIVE IsSubclass(_, _)
IsSubclass(cls, base) ==
  IF cls = base THEN TRUE
  ELSE IF Parent[cls] = cls THEN FALSE
  ELSE IsSubclass(Parent[cls], base)

CannotOpen == [cls |-> "OperationalError", msg |-> "unable to open database file"]
NotADatabase == [cls |-> "DatabaseError", msg |-> "file is not a database"]

\* failures a query on an open database can meet
QueryFaults == {[cls |-> "OperationalError", msg |-> "database is locked"],
                [cls |-> "DatabaseError", msg |-> "database disk image is malformed"]}

----------------------------------------------------------------------------
(* Printed lines *)

Line(kind, args) == [kind |-> kind, args |-> args]

BlankLine == Line("Blank", <<>>)
TableLine(name) == Line("Table", <<name>>)
ColumnsLine(cols) == Line("Columns", cols)
RowsLine == Line("Rows", <<>>)
RowLine(row) == Line("Row", row)
NoTablesLine == Line("NoTables", <<>>)
ErrorLine(e) == Line("Error", <<e.msg>>)

----------------------------------------------------------------------------
(* Store calls *)

Call(op, arg) == [op |-> op, arg |-> arg]

IsTable(e) == e.type = "table"

\* variant: the query without its WHERE type='table' clause
MasterTables_NoTypeFilter(catalog) ==
  [k \in 1..Len(catalog) |-> <<catalog[k].name>>]

\* SELECT name FROM sqlite_master WHERE type='table'; fetchall() gives a
\* list of 1-tuples
MasterTables(catalog) ==
  LET sel == SelectSeq(catalog, IsTable)
  IN [k \in 1..Len(sel) |-> <<sel[k].name>>]

\* SELECT * FROM <name>
SelectAll(catalog, name) ==
  LET k == CHOOSE k \in 1..Len(catalog) : catalog[k].name = name
  IN catalog[k].rows

----------------------------------------------------------------------------
Init ==
  /\ store \in {s \in Stores : WellFormedStore(s)}
  /\ store0 = store
  /\ pc = "connect"
  /\ conn = "none"
  /\ tables = <<>>
  /\ i = 0
  /\ rows = <<>>
  /\ columns = <<>>
  /\ r = 0
  /\ out = <<>>
  /\ log = <<>>
  /\ exc = NoExc
  /\ result = "running"

\* a store call raises e: control moves to the except clause
Raise(e) ==
  /\ exc' = e
  /\ pc' = "except"

\* conn = sqlite3.connect(db_path); cursor = conn.cursor()
Connect ==
  /\ pc = "connect"
  /\ log' = Append(log, Call("connect", ""))
  /\ \/ /\ store.file = "nodir"
        /\ Raise(CannotOpen)
        /\ UNCHANGED <<store, conn>>
     \/ /\ store.file = "absent"
        /\ store' = [file |-> "db", catalog |-> <<>>]
        /\ conn' = "open"
        /\ pc' = "list"
        /\ UNCHANGED exc
     \/ /\ store.file \in {"garbage", "db"}
        /\ conn' = "open"
        /\ pc' = "list"
        /\ UNCHANGED <<store, exc>>
  /\ UNCHANGED <<store0, tables, i, rows, columns, r, out, result>>

\* cursor.execute("SELECT name FROM sqlite_master WHERE type='table';")
\* tables = cursor.fetchall()
ListTables ==
  /\ pc = "list"
  /\ log' = Append(log, Call("list", ""))
  /\ \/ /\ store.file = "garbage"
        /\ Raise(NotADatabase)
        /\ UNCHANGED tables
     \/ /\ store.file = "db"
        /\ \E e \in QueryFaults : Raise(e)
        /\ UNCHANGED tables
     \/ /\ store.file = "db"
        /\ tables' = MasterTables(store.catalog)
        /\ pc' = "check"
        /\ UNCHANGED exc
  /\ UNCHANGED <<store, store0, conn, i, rows, columns, r, out, result>>

\* variant: the test written as "if tables:"
CheckEmpty_Inverted ==
  /\ pc = "check"
  /\ IF tables # <<>>
     THEN /\ out' = Append(out, NoTablesLine)
          /\ pc' = "done"
          /\ result' = "returned"
          /\ UNCHANGED i
     ELSE /\ i' = 1
          /\ pc' = "for"
          /\ UNCHANGED <<out, result>>
  /\ UNCHANGED <<store, store0, conn, tables, rows, columns, r, log, exc>>

\* if not tables: print("No tables found in the database."); return
CheckEmpty ==
  /\ pc = "check"
  /\ IF tables = <<>>
     THEN /\ out' = Append(out, NoTablesLine)
          /\ pc' = "done"
          /\ result' = "returned"
          /\ UNCHANGED i
     ELSE /\ i' = 1
          /\ pc' = "for"
          /\ UNCHANGED <<out, result>>
  /\ UNCHANGED <<store, store0, conn, tables, rows, columns, r, log, exc>>

\* for table_name in tables: print(f"\nTable: {table_name[0]}")
ForTable ==
  /\ pc = "for"
  /\ i <= Len(tables)
  /\ out' = out \o <<BlankLine, TableLine(tables[i][1])>>
  /\ pc' = "select"
  /\ UNCHANGED <<store, store0, conn, tables, i, rows, columns, r, log, exc,
                 result>>

\* the loop is exhausted
ForExit ==
  /\ pc = "for"
  /\ i > Len(tables)
  /\ pc' = "close"
  /\ UNCHANGED <<store, store0, conn, tables, i, rows, columns, r, out, log,
                 exc, result>>

\* cursor.execute(f"SELECT * FROM {table_name[0]};"); rows = cursor.fetchall()
Select ==
  /\ pc = "select"
  /\ log' = Append(log, Call("select", tables[i][1]))
  /\ \/ /\ \E e \in QueryFaults : Raise(e)
        /\ UNCHANGED rows
     \/ /\ rows' = SelectAll(store.catalog, tables[i][1])
        /\ pc' = "pragma"
        /\ UNCHANGED exc
  /\ UNCHANGED <<store, store0, conn, tables, i, columns, r, out, result>>

\* cursor.execute(f"PRAGMA table_info({table_name[0]});")
\* columns = [col[1] for col in cursor.fetchall()]
Pragma ==
  /\ pc = "pragma"
  /\ log' = Append(log, Call("pragma", tables[i][1]))
  /\ \/ /\ \E e \in QueryFaults : Raise(e)
        /\ UNCHANGED columns
     \/ /\ LET info == TableInfo[tables[i][1]]
           IN columns' = [k \in 1..Len(info) |-> info[k][2]]
        /\ pc' = "print"
        /\ UNCHANGED exc
  /\ UNCHANGED <<store, store0, conn, tables, i, rows, r, out, result>>

\* variant: the print of the column names is left out
PrintColumns_NoColumnsLine ==
  /\ pc = "print"
  /\ out' = Append(out, RowsLine)
  /\ r' = 1
  /\ pc' = "rows"
  /\ UNCHANGED <<store, store0, conn, tables, i, rows, columns, log, exc,
                 result>>

\* print("Columns:", columns); print("Rows:")
PrintColumns ==
  /\ pc = "print"
  /\ out' = out \o <<ColumnsLine(columns), RowsLine>>
  /\ r' = 1
  /\ pc' = "rows"
  /\ UNCHANGED <<store, store0, conn, tables, i, rows, columns, log, exc,
                 result>>

\* variant: the rows are printed last to first
PrintRow_Reversed ==
  /\ pc = "rows"
  /\ r <= Len(rows)
  /\ out' = Append(out, RowLine(rows[Len(rows) - r + 1]))
  /\ r' = r + 1
  /\ UNCHANGED <<store, store0, pc, conn, tables, i, rows, columns, log, exc,
                 result>>

\* for row in rows: print(row)
PrintRow ==
  /\ pc = "rows"
  /\ r <= Len(rows)
  /\ out' = Append(out, RowLine(rows[r]))
  /\ r' = r + 1
  /\ UNCHANGED <<store, store0, pc, conn, tables, i, rows, columns, log, exc,
                 result>>

\* the rows are exhausted: next table
RowsExit ==
  /\ pc = "rows"
  /\ r > Len(rows)
  /\ i' = i + 1
  /\ pc' = "for"
  /\ UNCHANGED <<store, store0, conn, tables, rows, columns, r, out, log, exc,
                 result>>

\* variant: the close is repeated
Close_Twice ==
  /\ pc = "close"
  /\ log' = log \o <<Call("close", ""), Call("close", "")>>
  /\ conn' = "closed"
  /\ pc' = "done"
  /\ result' = "returned"
  /\ UNCHANGED <<store, store0, tables, i, rows, columns, r, out, exc>>

\* conn.close(), then the function returns
Close ==
  /\ pc = "close"
  /\ log' = Append(log, Call("close", ""))
  /\ conn' = "closed"
  /\ pc' = "done"
  /\ result' = "returned"
  /\ UNCHANGED <<store, store0, tables, i, rows, columns, r, out, exc>>

\* variant: except sqlite3.OperationalError as e
Catches_OperationalOnly(e) == IsSubclass(e.cls, "OperationalError")

\* except sqlite3.Error as e
Catches(e) == IsSubclass(e.cls, "Error")

\* variant: the handler replaces what was printed by the error line
Except_DiscardOutput ==
  /\ pc = "except"
  /\ IF Catches(exc)
     THEN /\ out' = <<ErrorLine(exc)>>
          /\ result' = "returned"
     ELSE /\ result' = "raised"
          /\ UNCHANGED out
  /\ pc' = "done"
  /\ UNCHANGED <<store, store0, conn, tables, i, rows, columns, r, log, exc>>

\* except sqlite3.Error as e: print(f"Error reading database: {e}")
Except ==
  /\ pc = "except"
  /\ IF Catches(exc)
     THEN /\ out' = Append(out, ErrorLine(exc))
          /\ result' = "returned"
     ELSE /\ result' = "raised"
          /\ UNCHANGED out
  /\ pc' = "done"
  /\ UNCHANGED <<store, store0, conn, tables, i, rows, columns, r, log, exc>>

Next ==
  \/ Connect
  \/ ListTables
  \/ CheckEmpty
  \/ ForTable
  \/ ForExit
  \/ Select
  \/ Pragma
  \/ PrintColumns
  \/ PrintRow
  \/ RowsExit
  \/ Close
  \/ Except

Spec == Init /\ [][Next]_vars

\* the function body is one sequential thread: an enabled step is taken
LiveSpec == Spec /\ WF_vars(Next)

----------------------------------------------------------------------------
(* Derived quantities used by the properties *)

KindCount(kind) == Cardinality({p \in 1..Len(out) : out[p].kind = kind})

OpCount(op) == Cardinality({k \in 1..Len(log) : log[k].op = op})

\* the table-list query was issued and did not fail
ListSucceeded ==
  \E k \in 1..Len(log) :
    log[k].op = "list" /\ ~(exc # NoExc /\ k = Len(log))

\* a store call made for a table of the loop failed
FailedInLoop ==
  /\ exc # NoExc
  /\ log # <<>>
  /\ log[Len(log)].op \in {"select", "pragma"}

IsPrefix(s, t) == Len(s) <= Len(t) /\ \A p \in 1..Len(s) : s[p] = t[p]

\* names of the type='table' entries of the catalog, in catalog order
TableNames ==
  LET sel == SelectSeq(store.catalog, IsTable)
  IN [k \in 1..Len(sel) |-> sel[k].name]

EntryOf(name) ==
  store.catalog[CHOOSE k \in 1..Len(store.catalog) : store.catalog[k].name = name]

\* what a failure-free run prints for one table
Block(name) ==
  LET e == EntryOf(name)
      info == TableInfo[name]
  IN <<Line("Blank", <<>>), Line("Table", <<name>>),
       Line("Columns", [k \in 1..Len(info) |-> info[k][2]]),
       Line("Rows", <<>>)>>
     \o [k \in 1..Len(e.rows) |-> Line("Row", e.rows[k])]

\* the blocks of the first n names
RECURSIVE Blocks(_, _)
Blocks(names, n) ==
  IF n = 0 THEN <<>> ELSE Blocks(names, n - 1) \o Block(names[n])

\* the store calls a failure-free run issues for the first n names
RECURSIVE Queries(_, _)
Queries(names, n) ==
  IF n = 0 THEN <<>>
  ELSE Queries(names, n - 1)
       \o <<Call("select", names[n]), Call("pragma", names[n])>>

\* positions of the 'Table:' lines of the output, in order
TablePositions == {p \in 1..Len(out) : out[p].kind = "Table"}

\* last line of the block that starts with the 'Table:' line at p: the next
\* 'Table:' line is preceded by its blank line
BlockEnd(p) ==
  IF \E q \in TablePositions : q > p
  THEN (CHOOSE q \in TablePositions :
          q > p /\ \A q2 \in TablePositions : q2 > p => q <= q2) - 2
  ELSE Len(out)

\* the 'Table:' line at p is followed by the 'Columns:' line of the same
\* table, the 'Rows:' header and then only row lines up to the end of the block
WellFormedBlockAt(p) ==
  LET info == TableInfo[out[p].args[1]]
  IN /\ p + 2 <= Len(out)
     /\ out[p + 1] = Line("Columns", [k \in 1..Len(info) |-> info[k][2]])
     /\ out[p + 2].kind = "Rows"
     /\ \A q \in (p + 3)..BlockEnd(p) : out[q].kind = "Row"

----------------------------------------------------------------------------
(* C1: a failure of the store at any step (connect, table list, SELECT,    *)
(* PRAGMA) never leaves the function as an exception: it is printed as     *)
(* exactly one 'Error reading database: <text>' line, the last line of the *)
(* output, the function returns normally, and every run reaches its end.   *)
C1_FailureCaughtAndReported ==
  /\ [](result # "raised")
  /\ []((pc = "done" /\ exc # NoExc) =>
          /\ result = "returned"
          /\ KindCount("Error") = 1
          /\ out[Len(out)] = Line("Error", <<exc.msg>>))
  /\ <>(pc = "done")

C1_Witness ==
  /\ pc = "done"
  /\ exc.cls = "DatabaseError"
  /\ log[Len(log)].op = "pragma"
  /\ result = "returned"

(* C2: on a run without store error the connection is closed when the      *)
(* function returns, with zero tables as with N > 0 tables.                *)
C2_ClosedOnNormalExit ==
  (pc = "done" /\ exc = NoExc) => conn = "closed"

(* C3 as stated: at the end of every run on a database whose catalog lists *)
(* N tables the output has exactly N 'Table:' lines, each followed by the  *)
(* 'Columns:' line of that table and then row lines, also when a per-table *)
(* query failed.                                                           *)
C3_Original ==
  (pc = "done" /\ ListSucceeded) =>
    /\ KindCount("Table") = Len(TableNames)
    /\ \A p \in TablePositions : WellFormedBlockAt(p)

(* C3 amended: at the end of a run without store failure the output has    *)
(* exactly N 'Table:' lines, each followed by the 'Columns:' line of that  *)
(* table, the 'Rows:' header and row lines; when a query of the k-th table *)
(* failed it has exactly k 'Table:' lines, the first k-1 of that form and  *)
(* the k-th followed directly by the error line.                           *)
C3_TableBlocks ==
  (pc = "done" /\ ListSucceeded) =>
    IF exc = NoExc
    THEN /\ KindCount("Table") = Len(TableNames)
         /\ \A p \in TablePositions : WellFormedBlockAt(p)
    ELSE /\ KindCount("Table") = i
         /\ i \in 1..Len(TableNames)
         /\ \A p \in TablePositions :
              IF p = Len(out) - 1
              THEN out[Len(out)].kind = "Error"
              ELSE WellFormedBlockAt(p)
         /\ Len(out) - 1 \in TablePositions

C3_Witness ==
  /\ pc = "done"
  /\ exc # NoExc
  /\ i = 2
  /\ KindCount("Columns") = 1
  /\ KindCount("Row") = 2

(* C4: with zero tables in the catalog the run prints the single line      *)
(* 'No tables found in the database.', issues no per-table query and       *)
(* returns without raising or printing an error.                           *)
C4_NoTables ==
  (pc = "done" /\ ListSucceeded /\ Len(TableNames) = 0) =>
    /\ out = <<Line("NoTables", <<>>)>>
    /\ OpCount("select") = 0
    /\ OpCount("pragma") = 0
    /\ exc = NoExc
    /\ result = "returned"

C4_Witness ==
  /\ pc = "done"
  /\ store0.file = "db"
  /\ Len(store0.catalog) = 2
  /\ out = <<Line("NoTables", <<>>)>>

(* C5: the run leaves the store as it found it, whatever is at the path,   *)
(* also when no file exists there before the run.                          *)
C5_StoreUnchanged == store = store0

(* C6: for a path at which no file exists, and for a file that is not a    *)
(* database, the output of the run is a single error line.                 *)
C6_MissingOrInvalidFile ==
  (pc = "done" /\ store0.file \in {"nodir", "absent", "garbage"}) =>
    /\ Len(out) = 1
    /\ out[1].kind = "Error"

(* C7: when a query of the k-th table fails, what was printed before stays *)
(* printed: the output is the complete blocks of tables 1..k-1 as a        *)
(* failure-free run prints them, the 'Table:' line of table k, then the    *)
(* error line; the failed query was issued once and nothing after it; no   *)
(* step ever removes or alters a printed line.                             *)
C7_PartialOutputKept ==
  /\ []((pc = "done" /\ FailedInLoop) =>
          /\ out = Blocks(TableNames, i - 1)
                     \o <<Line("Blank", <<>>), Line("Table", <<TableNames[i]>>)>>
                     \o <<Line("Error", <<exc.msg>>)>>
          /\ \E q \in {<<Call("select", TableNames[i])>>,
                       <<Call("select", TableNames[i]),
                         Call("pragma", TableNames[i])>>} :
               log = <<Call("connect", ""), Call("list", "")>>
                       \o Queries(TableNames, i - 1) \o q)
  /\ [][IsPrefix(out, out')]_vars

C7_Witness ==
  /\ pc = "done"
  /\ FailedInLoop
  /\ i = 2
  /\ Len(out) > 7

(* C8 as stated: no 'Table:' block is printed for an object the store      *)
(* created for itself.                                                     *)
C8_Original ==
  \A p \in TablePositions : ~Internal(out[p].args[1])

(* C8 amended: the tables the run iterates over are exactly the catalog    *)
(* entries of type 'table', in catalog order: no index or view gets a      *)
(* 'Table:' block, while a table the store created for itself (such as     *)
(* sqlite_sequence) is listed and printed like a user table.               *)
C8_TypeTableOnly ==
  /\ \A p \in TablePositions :
       \E k \in 1..Len(store.catalog) :
         /\ store.catalog[k].name = out[p].args[1]
         /\ store.catalog[k].type = "table"
  /\ (pc = "done" /\ ListSucceeded /\ exc = NoExc) =>
       \A k \in 1..Len(store.catalog) :
         store.catalog[k].type = "table" =>
           \E p \in TablePositions : out[p].args[1] = store.catalog[k].name

C8_Witness ==
  /\ pc = "done"
  /\ exc = NoExc
  /\ \E k \in 1..Len(store.catalog) : store.catalog[k].type = "index"
  /\ \E p \in TablePositions : Internal(out[p].args[1])

(* C9: the output mirrors the store's order: as long as nothing failed the *)
(* output is a prefix of the blocks of the catalog's tables in catalog     *)
(* order, each with the 'Columns:' line before the rows in the order and   *)
(* multiplicity of the SELECT; a run that ends without failure has printed *)
(* all of them; the rows of a table are queried before its columns.        *)
C9_OrderMirrorsStore ==
  /\ (ListSucceeded /\ exc = NoExc /\ TableNames # <<>>) =>
       IsPrefix(out, Blocks(TableNames, Len(TableNames)))
  /\ (pc = "done" /\ exc = NoExc /\ TableNames # <<>>) =>
       out = Blocks(TableNames, Len(TableNames))
  /\ \A k \in 1..Len(log) :
       log[k].op = "pragma" =>
         k > 1 /\ log[k - 1] = Call("select", log[k].arg)

C9_Witness ==
  /\ pc = "done"
  /\ exc = NoExc
  /\ Len(TableNames) = 2
  /\ store.catalog[1].rows = <<(<<"y">>), (<<"x">>)>>
  /\ store.catalog[2].rows = <<(<<"x">>), (<<"x">>)>>

(* C10: a run prints at most one terminal message and it is the last line: *)
(* 'No tables found' never appears with a 'Table:' line, there is at most  *)
(* one error line, once either is printed nothing more is printed and no   *)
(* store call (query or close) is issued; the connection is closed at most *)
(* once and no query follows the close.                                    *)
C10_TerminalMessageLast ==
  /\ [](~(KindCount("NoTables") > 0 /\ KindCount("Table") > 0))
  /\ [](KindCount("Error") <= 1)
  /\ [](\A p \in 1..Len(out) :
          out[p].kind \in {"Error", "NoTables"} => p = Len(out))
  /\ [][(KindCount("Error") + KindCount("NoTables") > 0) =>
          (out' = out /\ log' = log /\ conn' = conn)]_vars
  /\ [](OpCount("close") <= 1)
  /\ [](\A k \in 1..Len(log) : log[k].op = "close" => k = Len(log))
  /\ [](conn = "closed" <=> OpCount("close") = 1)

C10_Witness ==
  /\ pc = "done"
  /\ KindCount("NoTables") = 1
  /\ conn = "open"
  /\ store0.file = "db"

====
